---- MODULE Spec2Model ----
(***************************************************************************)
(* Model of the DesiGators sampling core: the MeasurementCoordinator loop  *)
(* (src/src/gui.py), the controller handlers of AppWindow that start and   *)
(* stop it, and the consumer slots its signals are connected to.           *)
(*                                                                         *)
(* Threads.  AppWindow and every signal object live on the GUI thread;     *)
(* each MeasurementCoordinator.run executes on a QThreadPool thread.  An   *)
(* emit from run is therefore a queued connection: it posts one call per   *)
(* connected slot, in connection order, to the GUI thread's event queue    *)
(* (`queue`), and the GUI thread runs the slots one at a time.             *)
(*                                                                         *)
(* An exception that no Python code handles, raised in a slot Qt called,    *)
(* is passed by PyQt6 to qFatal(): the process aborts, and every thread    *)
(* stops where it is (`app`, `raised`).                                    *)
(*                                                                         *)
(* Time.  Every clock reading is an offset in seconds from the reading     *)
(* that opened the collection (collection_start_time); the time a cycle    *)
(* took is an input of its own.                                            *)
(*                                                                         *)
(* Sensors.  LoadCell and LoadCellArray (src/src/components/load_cell.py)  *)
(* are followed apart from the window, each under a specification of its   *)
(* own: ArraySpec for the array and its cache file, CellSpec for one        *)
(* LoadCell and the batch its HX711 returns.  Text is a sequence of         *)
(* characters, so that what save_array writes is what load_array splits     *)
(* and converts.  tare is followed under TareSpec and calibrate under       *)
(* CalibrationSpec: calibrate blocks at each input(), so every answer of   *)
(* the operator is a step of its own.                                      *)
(***************************************************************************)
EXTENDS Integers, Sequences, FiniteSets, TLC

\* ------------------------------------------------------------------ bounds
MaxCoord == 2      \* thread-pool threads that can run a coordinator
MaxQueue == 3      \* pending signal emissions in the GUI event queue
MaxRows  == 2      \* rows a collection buffer may hold
MaxCells == 2      \* LoadCells an array may hold
MaxSamples == 2    \* the sample_size tare may be called with
MaxPairs == 3      \* pairs one calibrate may collect

\* ------------------------------------------------------- program constants
interval   == 10   \* MeasurementCoordinator.__init__(interval=10)
NumSensors == 8    \* RHTSensorArray([SHT45(i) for i in range(8)])
Checked    == 2    \* record_checked: checked == 2
GridSlots  == 8    \* LoadCellArray: four chambers, sides L and R

Coord == 1..MaxCoord

\* Optional values: None, or a value v.
None    == << >>
Some(v) == << v >>
Val(o)  == o[1]

\* What measurement_stop_time - measurement_start_time may come to (seconds).
ElapsedValues == {0, interval - 1, interval, interval + 1}

\* What time() may read when a mass record is stamped.
TimeValues == {1}

\* The load one reading sees; cell i of the array then reports load + i grams.
LoadValues == {100}

VARIABLES
    controls,               \* AppWindow.controls: measure, read_signal
    collection_start_time,  \* AppWindow.collection_start_time
    mass_data,              \* AppWindow.mass_data: None or its shape
    rht_data,               \* AppWindow.rht_data: None or its shape
    num_cells,              \* load_cell_array.num_cells
    pc,                     \* where each coordinator's run is
    pacing,                 \* time_elapsed and the sleep argument, per coordinator
    printed,                \* whether print(e) reported a failed read since the
                            \* coordinator last read the flag
    stop_requested,         \* coordinators that were running when the flag was set
                            \* false and have not read the flag since
    queue,                  \* the GUI thread's pending signal emissions
    app,                    \* "running" or "aborted"
    raised,                 \* the handler whose exception aborted the process
    cells,                  \* LoadCellArray.cells: four chamber lists of LoadCells
    file,                   \* the text of cache/load_cells.txt
    saved,                  \* the cells save_array wrote file from, None once the
                            \* file was written by anything else
    cell,                   \* a LoadCell on its own, None where none is followed
    readings,               \* what HX711.get_raw_data returns to that LoadCell
    offset,                 \* that LoadCell's offset, None until tare sets it
    calibration,            \* where that LoadCell's calibrate is, and its
                            \* calibration_data
    outcome                 \* the last call on the array or the LoadCell: what
                            \* was called, what it returned or raised

vars == << controls, collection_start_time, mass_data, rht_data, num_cells, pc,
           pacing, printed, stop_requested, queue, app, raised,
           cells, file, saved, cell, readings, offset, calibration, outcome >>

\* The window and its coordinators: what the sensor classes never touch.
windowVars == << controls, collection_start_time, mass_data, rht_data, pc, pacing,
                 printed, stop_requested, queue, app, raised >>

\* The sensor objects and the cache file: what the sampling loop never assigns.
sensorVars == << cells, file, saved, cell, readings, offset, calibration, outcome >>

\* The number of sensors the array was loaded with: too few for show_new_masses
\* (1), too few for show_mass_plot (2), or the full grid.
CellCounts == {1, 2, GridSlots}

Running(c) == app = "running" /\ pc[c] \in {"check", "rht", "mass", "pace", "read"}

\* ------------------------------------------------------------ sensor arrays

\* RHTSensorArray.take_measurement: one (temperature, relative humidity) pair
\* per sensor, in a fixed order.
RHTTakeMeasurement == [i \in 1..NumSensors |-> << 20, 50 >>]

\* LoadCellArray.take_measurement: one mass per sensor, in array order.
MassTakeMeasurement(load) == [i \in 1..num_cells |-> load + i]

\* ------------------------------------------------------------------ signals

\* The slots measurement_handling connects to each signal, in connection order.
Slots(sig) ==
    CASE sig = "read" -> << "emit_read_pulse" >>
      [] sig = "mass" -> << "show_new_masses", "store_masses" >>
      [] sig = "rht"  -> << "show_new_rht", "store_rht" >>

\* signal.emit(arg) from a coordinator thread: one queued emission.
Emit(sig, arg) == Append(queue, [sig |-> sig, arg |-> arg, next |-> 1])

\* A signal that hands every slot the emitter's own list object.
ArgAfterSlot_shared(arg, mutated) == mutated

\* pyqtSignal(list) carries the list as a QVariantList: the queued argument is
\* a copy, each slot call converts it to a fresh Python list, and what a slot
\* does to its list (mutated) leaves the queued argument as it was.
ArgAfterSlot(arg, mutated) == arg

\* The queue once the slot at its head has returned.
SlotReturned(mutated) ==
    LET head == Head(queue) IN
    IF head.next < Len(Slots(head.sig))
    THEN << [head EXCEPT !.next = @ + 1,
                         !.arg = ArgAfterSlot(head.arg, mutated)] >> \o Tail(queue)
    ELSE Tail(queue)

SlotPending(slot) ==
    /\ app = "running"
    /\ queue # << >>
    /\ Slots(Head(queue).sig)[Head(queue).next] = slot

\* The handler raised an exception nothing handles: the process aborts.
Abort(handler) ==
    /\ app' = "aborted"
    /\ raised' = handler
    /\ UNCHANGED << num_cells, pc, pacing, printed, stop_requested, queue >>

\* ------------------------------------------------- MeasurementCoordinator.run

\* A loop that goes to the mass read without reading the environment.
FlagBranch_skips_rht(flag) == IF ~flag THEN "done" ELSE "mass"

\* The test of the flag the wrong way round.
FlagBranch_inverted(flag) == IF flag THEN "done" ELSE "rht"

\* Top of the loop: `if not self.controls['measure']: break`, else a cycle.
FlagBranch(flag) == IF ~flag THEN "done" ELSE "rht"

CheckFlag(c) ==
    /\ UNCHANGED sensorVars
    /\ Running(c)
    /\ pc[c] = "check"
    /\ pc' = [pc EXCEPT ![c] = FlagBranch(controls.measure)]
    /\ stop_requested' = stop_requested \ {c}
    /\ printed' = [printed EXCEPT ![c] = FALSE]
    /\ UNCHANGED << controls, collection_start_time, mass_data, rht_data,
                    num_cells, pacing, queue, app, raised >>

\* `break` in place of `continue`.
RhtFailed_break == [pc |-> "done", sleep |-> None]

\* `except Exception as e: print(e); continue`: where the loop goes, and the
\* argument of the sleep it takes on the way, after a failed environmental read.
RhtFailed == [pc |-> "check", sleep |-> None]

\* rht_array.take_measurement() raised.
RhtReadFails(c) ==
    /\ UNCHANGED sensorVars
    /\ Running(c)
    /\ pc[c] = "rht"
    /\ pc' = [pc EXCEPT ![c] = RhtFailed.pc]
    /\ pacing' = [pacing EXCEPT ![c].sleep = RhtFailed.sleep]
    /\ printed' = [printed EXCEPT ![c] = TRUE]
    /\ UNCHANGED << controls, collection_start_time, mass_data, rht_data,
                    num_cells, stop_requested, queue, app, raised >>

\* rht_array.take_measurement() returned; the result is emitted.
RhtRead(c) ==
    /\ UNCHANGED sensorVars
    /\ Running(c)
    /\ pc[c] = "rht"
    /\ Len(queue) < MaxQueue
    /\ queue' = Emit("rht", RHTTakeMeasurement)
    /\ pc' = [pc EXCEPT ![c] = "mass"]
    /\ UNCHANGED << controls, collection_start_time, mass_data, rht_data,
                    num_cells, pacing, printed, stop_requested, app, raised >>

\* Where run is after mass_array.take_measurement() raised (an uncalibrated
\* sensor, an empty trimmed batch): nothing in run catches the exception.
MassFailed == "crashed"

MassReadFails(c) ==
    /\ UNCHANGED sensorVars
    /\ Running(c)
    /\ pc[c] = "mass"
    /\ pc' = [pc EXCEPT ![c] = MassFailed]
    /\ UNCHANGED << controls, collection_start_time, mass_data, rht_data,
                    num_cells, pacing, printed, stop_requested, queue, app, raised >>

\* A record that leaves out the time.
MassRecord_untimed(now, masses) == masses

\* mass_readings.insert(0, time())
MassRecord(now, masses) == << now >> \o masses

\* mass_array.take_measurement() returned; the stamped record is emitted.
MassRead(c) ==
    /\ UNCHANGED sensorVars
    /\ Running(c)
    /\ pc[c] = "mass"
    /\ Len(queue) < MaxQueue
    /\ \E now \in TimeValues, load \in LoadValues :
          queue' = Emit("mass", MassRecord(now, MassTakeMeasurement(load)))
    /\ pc' = [pc EXCEPT ![c] = "pace"]
    /\ UNCHANGED << controls, collection_start_time, mass_data, rht_data,
                    num_cells, pacing, printed, stop_requested, app, raised >>

\* The sleep without its guard.
SleepArg_unguarded(time_elapsed) == Some(interval - time_elapsed)

\* `if time_elapsed < self.interval: sleep(self.interval - time_elapsed)`:
\* the argument sleep is called with, None when it is not called.
SleepArg(time_elapsed) ==
    IF time_elapsed < interval THEN Some(interval - time_elapsed) ELSE None

NoPacing == [time_elapsed |-> 0, sleep |-> None]

\* measurement_stop_time, time_elapsed, and the pacing delay begins.
Pace(c) ==
    /\ UNCHANGED sensorVars
    /\ Running(c)
    /\ pc[c] = "pace"
    /\ \E time_elapsed \in ElapsedValues :
          pacing' = [pacing EXCEPT ![c] = [time_elapsed |-> time_elapsed,
                                           sleep |-> SleepArg(time_elapsed)]]
    /\ UNCHANGED printed
    /\ pc' = [pc EXCEPT ![c] = "read"]
    /\ UNCHANGED << controls, collection_start_time, mass_data, rht_data,
                    num_cells, stop_requested, queue, app, raised >>

\* The pacing delay is over: self.signals.read.emit(), and back to the top.
ReadEmit(c) ==
    /\ UNCHANGED sensorVars
    /\ Running(c)
    /\ pc[c] = "read"
    /\ Len(queue) < MaxQueue
    /\ queue' = Emit("read", << >>)
    /\ pc' = [pc EXCEPT ![c] = "check"]
    /\ pacing' = [pacing EXCEPT ![c] = NoPacing]
    /\ UNCHANGED << controls, collection_start_time, mass_data, rht_data,
                    num_cells, printed, stop_requested, app, raised >>

\* ------------------------------------------------------ AppWindow: controller

\* np.zeros((1, cols)): the buffer's shape.
Zeros(cols) == Some([rows |-> 1, cols |-> cols])

\* np.append(buffer, [row], axis=0)
AppendRow(buffer) == Some([Val(buffer) EXCEPT !.rows = @ + 1])

\* np.delete(buffer, 0, 0)
DeleteFirstRow(buffer) == Some([Val(buffer) EXCEPT !.rows = @ - 1])

FreeThreads == {c \in Coord : ~Running(c)}

\* measurement_handling: a new coordinator, connected and started on a free
\* thread of the pool.
MeasurementHandling ==
    LET c == CHOOSE x \in FreeThreads : \A y \in FreeThreads : x <= y IN
    /\ pc' = [pc EXCEPT ![c] = "check"]
    /\ pacing' = [pacing EXCEPT ![c] = NoPacing]
    /\ printed' = [printed EXCEPT ![c] = FALSE]
    /\ stop_requested' = stop_requested \ {c}

\* measurement_clicked with the flag true: fresh buffers, then
\* measurement_handling.
StartCollection ==
    /\ FreeThreads # {}
    /\ collection_start_time' = Some(0)
    /\ mass_data' = Zeros(1 + num_cells)
    /\ rht_data' = Zeros(2 * NumSensors)
    /\ MeasurementHandling
    /\ UNCHANGED << num_cells, queue, app, raised >>

\* measurement_clicked with the flag false: the first row of each buffer is
\* dropped, the two are joined column-wise (they must have as many rows; the
\* fallback of the except branch raises TypeError), saved and cleared.
StopCollection ==
    IF mass_data = None \/ rht_data = None
    THEN /\ Abort("record_checked")
         /\ UNCHANGED << collection_start_time, mass_data, rht_data >>
    ELSE LET masses == DeleteFirstRow(mass_data)
             rhts   == DeleteFirstRow(rht_data)
         IN IF Val(masses).rows = Val(rhts).rows
            THEN /\ mass_data' = None
                 /\ rht_data' = None
                 /\ stop_requested' = {c \in Coord : Running(c)}
                 /\ UNCHANGED << collection_start_time, num_cells, pc, pacing, printed,
                                 queue, app, raised >>
            ELSE /\ mass_data' = masses
                 /\ rht_data' = rhts
                 /\ app' = "aborted"
                 /\ raised' = "record_checked"
                 /\ stop_requested' = {c \in Coord : Running(c)}
                 /\ UNCHANGED << collection_start_time, num_cells, pc, pacing, printed,
                                 queue >>

\* ChamberTabPage.record_checked: the record checkbox changed state.
RecordChecked(checked) ==
    /\ UNCHANGED sensorVars
    /\ app = "running"
    /\ (checked = Checked) # controls.measure
    /\ controls' = [controls EXCEPT !.measure = (checked = Checked)]
    /\ IF checked = Checked THEN StartCollection ELSE StopCollection

\* --------------------------------------------------------- AppWindow: slots

\* show_new_masses: masses.pop(0), then masses[0] + masses[1].
ShowNewMasses ==
    /\ UNCHANGED sensorVars
    /\ SlotPending("show_new_masses")
    /\ LET masses == Head(queue).arg IN
       IF Len(masses) = 0 \/ Len(Tail(masses)) < 2
       THEN Abort("show_new_masses")
       ELSE /\ queue' = SlotReturned(Tail(masses))
            /\ UNCHANGED << num_cells, pc, pacing, printed, stop_requested, app, raised >>
    /\ UNCHANGED << controls, collection_start_time, mass_data, rht_data >>

\* show_mass_plot reads columns 1+(i-1)*2 and 2*i of mass_data, i in 1..4.
ShowMassPlotRaises(cols) ==
    \E i \in 1..4 : 1 + (i - 1) * 2 >= cols \/ 2 * i >= cols

\* store_masses: data.pop(0) is the time, the rest the masses; one row more.
StoreMasses ==
    /\ UNCHANGED sensorVars
    /\ SlotPending("store_masses")
    /\ LET data == Head(queue).arg IN
       IF Len(data) = 0 \/ collection_start_time = None \/ mass_data = None
       THEN Abort("store_masses") /\ UNCHANGED mass_data
       ELSE LET time_elapsed == data[1] - Val(collection_start_time)
                row == << time_elapsed >> \o Tail(data)
            IN IF Len(row) # Val(mass_data).cols
               THEN Abort("store_masses") /\ UNCHANGED mass_data
               ELSE /\ Val(mass_data).rows < MaxRows
                    /\ mass_data' = AppendRow(mass_data)
                    /\ IF ShowMassPlotRaises(Val(mass_data).cols)
                       THEN Abort("store_masses")
                       ELSE /\ queue' = SlotReturned(Tail(data))
                            /\ UNCHANGED << num_cells, pc, pacing, printed,
                                            stop_requested, app, raised >>
    /\ UNCHANGED << controls, collection_start_time, rht_data >>

\* show_new_rht reads rhts[j + (i-1)*2] for i in 1..4, j in 0..1.
ShowNewRht ==
    /\ UNCHANGED sensorVars
    /\ SlotPending("show_new_rht")
    /\ LET rhts == Head(queue).arg IN
       IF \E i \in 1..4, j \in 0..1 : j + (i - 1) * 2 >= Len(rhts)
       THEN Abort("show_new_rht")
       ELSE /\ queue' = SlotReturned(rhts)
            /\ UNCHANGED << num_cells, pc, pacing, printed, stop_requested, app, raised >>
    /\ UNCHANGED << controls, collection_start_time, mass_data, rht_data >>

\* [x for t in data for x in t]
Flatten(data) ==
    [k \in 1..(2 * Len(data)) |-> data[(k + 1) \div 2][2 - (k % 2)]]

\* show_psychro_plot reads columns (i-1)*2 and 2+(i-1)*2, i in 1..4, and for
\* every row r the entries [r, 1+(r-1)*2] and [r, 3+(r-1)*2].
ShowPsychroPlotRaises(rows, cols) ==
    \/ \E i \in 1..4 : 2 + (i - 1) * 2 >= cols
    \/ \E r \in 0..(rows - 1) :
          \/ 1 + (r - 1) * 2 < 0 - cols
          \/ 3 + (r - 1) * 2 >= cols

\* store_rht: the pairs flattened into one row more.
StoreRht ==
    /\ UNCHANGED sensorVars
    /\ SlotPending("store_rht")
    /\ LET data == Head(queue).arg
           row == Flatten(data)
       IN IF rht_data = None \/ Len(row) # Val(rht_data).cols
          THEN Abort("store_rht") /\ UNCHANGED rht_data
          ELSE /\ Val(rht_data).rows < MaxRows
               /\ rht_data' = AppendRow(rht_data)
               /\ IF ShowPsychroPlotRaises(Val(rht_data).rows + 1, Val(rht_data).cols)
                  THEN Abort("store_rht")
                  ELSE /\ queue' = SlotReturned(data)
                       /\ UNCHANGED << num_cells, pc, pacing, printed, stop_requested,
                                       app, raised >>
    /\ UNCHANGED << controls, collection_start_time, mass_data >>

\* emit_read_pulse: read_signal is raised for 0.8 s and lowered again.
EmitReadPulse ==
    /\ UNCHANGED sensorVars
    /\ SlotPending("emit_read_pulse")
    /\ controls' = [controls EXCEPT !.read_signal = FALSE]
    /\ queue' = SlotReturned(Head(queue).arg)
    /\ UNCHANGED << collection_start_time, mass_data, rht_data, num_cells, pc,
                    pacing, printed, stop_requested, app, raised >>

\* ---------------------------------------------------------------- text
\* A str is a sequence of one-character strings; a float is a whole number of
\* tenths (25 is 2.5), which str() writes with one digit after the point.

Digits == << "0", "1", "2", "3", "4", "5", "6", "7", "8", "9" >>

IsDigit(ch) == \E d \in 1..10 : Digits[d] = ch

DigitValue(ch) == (CHOOSE d \in 1..10 : Digits[d] = ch) - 1

NoneText == << "N", "o", "n", "e" >>

\* str(n) of an int n >= 0.
RECURSIVE StrInt(_)
StrInt(n) == IF n < 10 THEN << Digits[n + 1] >>
             ELSE StrInt(n \div 10) \o << Digits[(n % 10) + 1] >>

\* str(x) of a float x >= 0.
StrFloat(tenths) == StrInt(tenths \div 10) \o << "." >> \o StrInt(tenths % 10)

\* str(cell.m), str(cell.b): the float, or None.
StrOptional(value) == IF value = None THEN NoneText ELSE StrFloat(Val(value))

\* The value of a run of decimal digits.
RECURSIVE DecimalValue(_)
DecimalValue(text) ==
    IF text = << >> THEN 0
    ELSE 10 * DecimalValue(SubSeq(text, 1, Len(text) - 1)) + DigitValue(text[Len(text)])

IsDecimal(text) == text # << >> /\ \A i \in 1..Len(text) : IsDigit(text[i])

\* int(text): Some(n), or None where int raises ValueError.
ParseInt(text) == IF IsDecimal(text) THEN Some(DecimalValue(text)) ELSE None

\* float(text): Some(tenths), or None where float raises ValueError.
ParseFloat(text) ==
    LET points == {i \in 1..Len(text) : text[i] = "."} IN
    IF points = {}
    THEN IF IsDecimal(text) THEN Some(10 * DecimalValue(text)) ELSE None
    ELSE LET p     == CHOOSE i \in points : \A j \in points : i <= j
             whole == SubSeq(text, 1, p - 1)
             frac  == SubSeq(text, p + 1, Len(text))
         IN  IF IsDecimal(whole) /\ IsDecimal(frac) /\ Len(frac) = 1
             THEN Some(10 * DecimalValue(whole) + DecimalValue(frac))
             ELSE None

\* text.split(sep): the pieces between the separators, empty ones included.
RECURSIVE Split(_, _)
Split(text, sep) ==
    LET at == {i \in 1..Len(text) : text[i] = sep} IN
    IF at = {} THEN << text >>
    ELSE LET i == CHOOSE k \in at : \A j \in at : k <= j
         IN  << SubSeq(text, 1, i - 1) >> \o Split(SubSeq(text, i + 1, Len(text)), sep)

\* list.insert(index, item) for index >= 0.
Insert(list, index, item) ==
    IF index >= Len(list) THEN Append(list, item)
    ELSE SubSeq(list, 1, index) \o << item >> \o SubSeq(list, index + 1, Len(list))

\* ------------------------------------------------------------ LoadCell

Chambers == {1, 2, 3, 4}     \* chamber not in [1, 2, 3, 4]
Sides    == {"L", "R"}       \* str(side).upper() not in ['L', 'R']

\* str.upper() of one character.
Upper(ch) == CASE ch = "l" -> "L"
               [] ch = "r" -> "R"
               [] ch = "x" -> "X"
               [] OTHER    -> ch

\* What a call returned, or the exception it raised.
Returned(value) == [raised |-> "nothing", value |-> value]
Raised(error)   == [raised |-> error, value |-> None]

\* LoadCell.__init__: the new LoadCell, or ValueError.
LoadCellInit_unchecked(data_pin, clock_pin, gain, channel, chamber, side, m, b) ==
    Returned([data_pin |-> data_pin, clock_pin |-> clock_pin, gain |-> gain,
              channel |-> channel, id |-> StrInt(chamber) \o << Upper(side) >>,
              m |-> m, b |-> b])

LoadCellInit(data_pin, clock_pin, gain, channel, chamber, side, m, b) ==
    IF chamber \notin Chambers THEN Raised("ValueError")
    ELSE IF Upper(side) \notin Sides THEN Raised("ValueError")
    ELSE Returned([data_pin |-> data_pin, clock_pin |-> clock_pin, gain |-> gain,
                   channel |-> channel, id |-> StrInt(chamber) \o << Upper(side) >>,
                   m |-> m, b |-> b])

SampleSize == 10             \* self.get_raw_data(10)

\* The raw counts one sample may read.
RawValues == {0, 1, 2, 9}

\* A float the measurements compute: the quotient num / den.
Quotient(num, den) == [num |-> num, den |-> den]

SameNumber(x, y) == x.num * y.den = y.num * x.den

RECURSIVE Sum(_)
Sum(list) == IF list = << >> THEN 0 ELSE Head(list) + Sum(Tail(list))

\* The k-th smallest value of a list, k in 1..Len(list).
KthSmallest(list, k) ==
    CHOOSE v \in {list[i] : i \in 1..Len(list)} :
        /\ Cardinality({i \in 1..Len(list) : list[i] < v}) < k
        /\ Cardinality({i \in 1..Len(list) : list[i] <= v}) >= k

\* Ten times numpy.quantile(list, tenth / 10): the value at position
\* (tenth / 10) * (Len(list) - 1) of the sorted list, interpolated linearly
\* between its two neighbours.
Quantile10(list, tenth) ==
    LET at    == tenth * (Len(list) - 1)
        below == KthSmallest(list, (at \div 10) + 1)
        part  == at % 10
    IN  IF part = 0 THEN 10 * below
        ELSE 10 * below + part * (KthSmallest(list, (at \div 10) + 2) - below)

\* readings[(readings > quantile(readings, 0.1)) & (readings < quantile(readings, 0.9))]
Trimmed_upper_only(list) ==
    LET Keep(x) == 10 * x < Quantile10(list, 9)
    IN  SelectSeq(list, Keep)

Trimmed(list) ==
    LET Keep(x) == 10 * x > Quantile10(list, 1) /\ 10 * x < Quantile10(list, 9)
    IN  SelectSeq(list, Keep)

\* sum(readings) / len(readings)
Mean(list) == IF Len(list) = 0 THEN Raised("ZeroDivisionError")
              ELSE Returned(Quotient(Sum(list), Len(list)))

\* LoadCell.take_measurement on the batch get_raw_data returned.
TakeMeasurement(batch) == Mean(Trimmed(batch))

\* LoadCell.get_mass: self.m * measurement + self.b.
GetMass_defaulted(load_cell, batch) ==
    LET measurement == TakeMeasurement(batch) IN
    IF measurement.raised # "nothing" THEN measurement
    ELSE IF load_cell.m = None \/ load_cell.b = None THEN measurement
    ELSE Returned(Quotient(Val(load_cell.m) * measurement.value.num
                               + Val(load_cell.b) * measurement.value.den,
                           10 * measurement.value.den))

GetMass(load_cell, batch) ==
    LET measurement == TakeMeasurement(batch) IN
    IF measurement.raised # "nothing" THEN measurement
    ELSE IF load_cell.m = None THEN Raised("TypeError")
    ELSE IF load_cell.b = None THEN Raised("TypeError")
    ELSE Returned(Quotient(Val(load_cell.m) * measurement.value.num
                               + Val(load_cell.b) * measurement.value.den,
                           10 * measurement.value.den))

\* -------------------------------------------------------- LoadCellArray

\* self.cells = [[],[],[],[]]
EmptyCells == << << >>, << >>, << >>, << >> >>

\* The LoadCells in the order `for chamber in self.cells: for cell in chamber`
\* visits them.
Flat(grid) == grid[1] \o grid[2] \o grid[3] \o grid[4]

\* if cell.id[1] == 'L': index = 0, else: index = 1
SideIndex(side) == IF side = "L" THEN 0 ELSE 1

\* self.cells[chamber - 1] for a chamber in 0..4: index -1 is the last list.
ChamberList(chamber) == IF chamber = 0 THEN 4 ELSE chamber

\* self.cells[int(cell.id[0]) - 1].insert(index, cell)
InsertCell_unordered(grid, load_cell) ==
    LET chamber == Val(ParseInt(<< load_cell.id[1] >>))
    IN  [grid EXCEPT ![ChamberList(chamber)] = Append(@, load_cell)]

InsertCell(grid, load_cell) ==
    LET chamber == Val(ParseInt(<< load_cell.id[1] >>))
    IN  [grid EXCEPT ![ChamberList(chamber)] =
                  Insert(@, SideIndex(load_cell.id[2]), load_cell)]

\* LoadCellArray.__init__(cells): the loop over cells.
RECURSIVE ArrayInit(_, _)
ArrayInit(array, list) ==
    IF list = << >> THEN array
    ELSE ArrayInit([cells     |-> InsertCell(array.cells, Head(list)),
                    num_cells |-> array.num_cells + 1], Tail(list))

\* save_array: write_str of one LoadCell.
WriteStr_bare_none(load_cell) ==
    StrInt(load_cell.data_pin) \o << "," >> \o StrInt(load_cell.clock_pin) \o << "," >>
    \o StrInt(load_cell.gain) \o << "," >> \o load_cell.channel \o << "," >>
    \o load_cell.id \o << "," >>
    \o (IF load_cell.m = None THEN << "0", ".", "0" >> ELSE StrFloat(Val(load_cell.m)))
    \o << "," >> \o StrOptional(load_cell.b) \o << "|" >>

WriteStr(load_cell) ==
    StrInt(load_cell.data_pin) \o << "," >> \o StrInt(load_cell.clock_pin) \o << "," >>
    \o StrInt(load_cell.gain) \o << "," >> \o load_cell.channel \o << "," >>
    \o load_cell.id \o << "," >> \o StrOptional(load_cell.m) \o << "," >>
    \o StrOptional(load_cell.b) \o << "|" >>

\* save_array: what the file holds once every LoadCell of the list is written.
RECURSIVE WriteAll(_)
WriteAll(list) == IF list = << >> THEN << >>
                  ELSE WriteStr(Head(list)) \o WriteAll(Tail(list))

SaveArray(grid) == WriteAll(Flat(grid))

\* A load that drops the first piece as well as the last.
Records_drops_first(text) ==
    LET pieces == Split(text, "|") IN SubSeq(pieces, 2, Len(pieces) - 1)

\* load_array: data_string.split('|') without its last piece.
Records(text) ==
    LET pieces == Split(text, "|") IN SubSeq(pieces, 1, Len(pieces) - 1)

\* load_array, one pass of its loop: the record is split and converted field
\* by field, and the LoadCell is inserted; an exception leaves the grid as the
\* passes before it made it.
LoadRecord(grid, record) ==
    LET f      == Split(record, ",")
        Fails(error) == [cells |-> grid, raised |-> error]
    IN  IF ParseInt(f[1]) = None THEN Fails("ValueError")
        ELSE IF Len(f) < 2 THEN Fails("IndexError")
        ELSE IF ParseInt(f[2]) = None THEN Fails("ValueError")
        ELSE IF Len(f) < 3 THEN Fails("IndexError")
        ELSE IF ParseInt(f[3]) = None THEN Fails("ValueError")
        ELSE IF Len(f) < 5 THEN Fails("IndexError")
        ELSE IF Len(f[5]) < 1 THEN Fails("IndexError")
        ELSE IF ParseInt(<< f[5][1] >>) = None THEN Fails("ValueError")
        ELSE IF Len(f[5]) < 2 THEN Fails("IndexError")
        ELSE IF Len(f) < 6 THEN Fails("IndexError")
        ELSE IF f[6] # NoneText /\ ParseFloat(f[6]) = None THEN Fails("ValueError")
        ELSE IF Len(f) < 7 THEN Fails("IndexError")
        ELSE IF f[7] # NoneText /\ ParseFloat(f[7]) = None THEN Fails("ValueError")
        ELSE LET chamber == Val(ParseInt(<< f[5][1] >>))
                 side    == f[5][2]
                 m       == IF f[6] # NoneText THEN ParseFloat(f[6]) ELSE None
                 b       == IF f[7] # NoneText THEN ParseFloat(f[7]) ELSE None
                 made    == LoadCellInit(Val(ParseInt(f[1])), Val(ParseInt(f[2])),
                                         Val(ParseInt(f[3])), f[4], chamber, side, m, b)
             IN  IF chamber > 4 THEN Fails("IndexError")
                 ELSE IF made.raised # "nothing" THEN Fails(made.raised)
                 ELSE [cells  |-> [grid EXCEPT ![ChamberList(chamber)] =
                                       Insert(@, SideIndex(side), made.value)],
                       raised |-> "nothing"]

\* load_array: the loop over the records.
RECURSIVE LoadRecords(_, _)
LoadRecords(grid, records) ==
    IF records = << >> THEN [cells |-> grid, raised |-> "nothing"]
    ELSE LET pass == LoadRecord(grid, Head(records)) IN
         IF pass.raised # "nothing" THEN pass
         ELSE LoadRecords(pass.cells, Tail(records))

\* load_array on an array whose grid is `grid`: num_cells is assigned before the
\* loop runs.
LoadArray(grid, text) ==
    LET loaded == LoadRecords(grid, Records(text))
    IN  [cells |-> loaded.cells, num_cells |-> Len(Records(text)),
         raised |-> loaded.raised]

\* LoadCellArray.take_measurement: data grows by one mass per LoadCell, and an
\* exception of get_mass leaves the call before data is returned.
RECURSIVE MeasureCells_partial(_, _, _)
MeasureCells_partial(list, batches, data) ==
    IF list = << >> THEN Returned(data)
    ELSE LET mass == GetMass(Head(list), Head(batches)) IN
         IF mass.raised # "nothing" THEN Returned(data)
         ELSE MeasureCells_partial(Tail(list), Tail(batches), Append(data, mass.value))

RECURSIVE MeasureCells(_, _, _)
MeasureCells(list, batches, data) ==
    IF list = << >> THEN Returned(data)
    ELSE LET mass == GetMass(Head(list), Head(batches)) IN
         IF mass.raised # "nothing" THEN mass
         ELSE MeasureCells(Tail(list), Tail(batches), Append(data, mass.value))

ArrayTakeMeasurement(grid, batches) == MeasureCells(Flat(grid), batches, << >>)

\* ------------------------------------------------ the array on its own
\* LoadCellArray as its callers use it (AppWindow.__init__, main() of
\* components/load_cell.py): arrays are made, saved, loaded and measured, and the
\* cache file may be written by hand between two runs.

\* The arguments LoadCell is created with: data_pin, clock_pin, gain, channel,
\* chamber, side, m, b.
CellArgs(chamber, side, m, b) ==
    [data_pin |-> 5, clock_pin |-> 6, gain |-> 128, channel |-> << "A" >>,
     chamber |-> chamber, side |-> side, m |-> m, b |-> b]

NewLoadCell(args) ==
    LoadCellInit(args.data_pin, args.clock_pin, args.gain, args.channel,
                 args.chamber, args.side, args.m, args.b)

\* LoadCells of the rig: two calibrated, one without slope, one without
\* intercept.
RigCells == { CellArgs(1, "L", Some(25), Some(15)),
              CellArgs(1, "R", None, Some(15)),
              CellArgs(3, "l", Some(10), Some(5)),
              CellArgs(3, "R", Some(25), None) }

\* Arguments outside LoadCell's domain: a chamber below and one above, a side
\* that is neither L nor R.
StrayCells == { CellArgs(0, "L", Some(25), Some(15)),
                CellArgs(5, "R", Some(25), Some(15)),
                CellArgs(1, "X", Some(25), Some(15)) }

ListsOf(set, longest) == UNION { [1..n -> set] : n \in 0..longest }

\* Two batches of raw counts: one whose middle survives the trimming, and one
\* whose samples are all equal.
SpreadBatch == << 0, 1, 1, 1, 1, 1, 1, 1, 1, 2 >>
EqualBatch  == [i \in 1..SampleSize |-> 1]

\* How a hand-written file may differ from what save_array writes, in its last
\* record: a field short, a field more, a pin that is no number, a chamber or a
\* side that no LoadCell has.
Damages == {"none", "field_short", "field_more", "pin_text", "chamber_5", "side_X"}

ReplaceLast(list, item) == SubSeq(list, 1, Len(list) - 1) \o << item >>

RECURSIVE Join(_, _)
Join(pieces, sep) ==
    IF Len(pieces) = 0 THEN << >>
    ELSE IF Len(pieces) = 1 THEN pieces[1]
    ELSE pieces[1] \o << sep >> \o Join(Tail(pieces), sep)

Damaged(record, damage) ==
    LET f == Split(record, ",") IN
    CASE damage = "none"        -> record
      [] damage = "field_short" -> Join(SubSeq(f, 1, Len(f) - 1), ",")
      [] damage = "field_more"  -> record \o << ",", "7" >>
      [] damage = "pin_text"    -> Join([f EXCEPT ![1] = << "x" >>], ",")
      [] damage = "chamber_5"   -> Join([f EXCEPT ![5] = << "5", f[5][2] >>], ",")
      [] damage = "side_X"      -> Join([f EXCEPT ![5] = << f[5][1], "X" >>], ",")

\* The text of a file that holds the records of `list`, the last one damaged.
FileText(list, damage) ==
    LET records == Records(WriteAll(list)) IN
    IF records = << >> THEN << >>
    ELSE Join(ReplaceLast(records, Damaged(records[Len(records)], damage)), "|")
         \o << "|" >>

\* The files a hand may leave in cache/: up to two records as save_array writes
\* them, in any order, the last one damaged or not.
ExternalFiles ==
    { FileText([i \in 1..Len(list) |-> NewLoadCell(list[i]).value], damage) :
          list \in ListsOf(RigCells, 2) \ {<< >>}, damage \in Damages }

\* The batches one LoadCell may read: every mix of the raw values, in
\* ascending order (quantile, the mask and sum do not look at the order).
RawBatches ==
    { batch \in [1..SampleSize -> RawValues] :
          \A i \in 1..(SampleSize - 1) : batch[i] <= batch[i + 1] }

Called(op, args, result) ==
    [op |-> op, args |-> args, raised |-> result.raised, value |-> result.value]

\* LoadCellArray([LoadCell(...), ...]): the LoadCells are created first, and the
\* first one that raises ends the statement before LoadCellArray is called.
NewLoadCellArray(list) ==
    LET made   == [i \in 1..Len(list) |-> NewLoadCell(list[i])]
        failed == {i \in 1..Len(list) : made[i].raised # "nothing"}
    IN  IF failed # {}
        THEN LET first == CHOOSE i \in failed : \A j \in failed : i <= j
             IN  [raised |-> made[first].raised, value |-> None,
                  args   |-> << list[first].chamber, list[first].side >>]
        ELSE [raised |-> "nothing",
              value  |-> ArrayInit([cells |-> EmptyCells, num_cells |-> 0],
                                   [i \in 1..Len(list) |-> made[i].value]),
              args   |-> << >>]

\* What that statement comes to for every list of up to MaxCells LoadCells.
NewArrays ==
    { NewLoadCellArray(list) : list \in ListsOf(RigCells \cup StrayCells, MaxCells) }

\* array = LoadCellArray([...]): a new array replaces the one at hand, unless
\* the statement raised.
NewArray(made) ==
    /\ IF made.raised # "nothing"
       THEN UNCHANGED << cells, num_cells >>
       ELSE /\ cells' = made.value.cells
            /\ num_cells' = made.value.num_cells
    /\ outcome' = Called("LoadCellArray", made.args, [made EXCEPT !.value = None])
    /\ UNCHANGED << windowVars, file, saved, cell, readings, offset, calibration >>

\* save_array()
SaveArrayCall ==
    /\ file' = SaveArray(cells)
    /\ saved' = Some(cells)
    /\ outcome' = Called("save_array", << >>, Returned(None))
    /\ UNCHANGED << windowVars, num_cells, cells, cell, readings, offset, calibration >>

\* cache/load_cells.txt is written by hand, before a run populates its array.
EditFile(text) ==
    /\ cells = EmptyCells
    /\ file' = text
    /\ saved' = None
    /\ outcome' = Called("file_written", << >>, Returned(None))
    /\ UNCHANGED << windowVars, num_cells, cells, cell, readings, offset, calibration >>

\* load_array()
LoadArrayCall ==
    /\ Len(Flat(cells)) + Len(Records(file)) <= MaxCells
    /\ LET loaded == LoadArray(cells, file) IN
       /\ cells' = loaded.cells
       /\ num_cells' = loaded.num_cells
       /\ outcome' = Called("load_array", << >>, [raised |-> loaded.raised, value |-> None])
    /\ UNCHANGED << windowVars, file, saved, cell, readings, offset, calibration >>

\* take_measurement(), each LoadCell reading a batch of its own.
TakeMeasurementCall(batches) ==
    /\ outcome' = Called("take_measurement", << >>, ArrayTakeMeasurement(cells, batches))
    /\ UNCHANGED << windowVars, num_cells, cells, file, saved, cell, readings, offset, calibration >>

\* No calibrate is running, and none has collected anything.
NotCalibrating == [at |-> "idle", data |-> << >>]

\* The window before any checkbox is touched.
WindowInit ==
    /\ controls = [measure |-> FALSE, read_signal |-> FALSE]
    /\ collection_start_time = None
    /\ mass_data = None
    /\ rht_data = None
    /\ pc = [c \in Coord |-> "idle"]
    /\ pacing = [c \in Coord |-> NoPacing]
    /\ printed = [c \in Coord |-> FALSE]
    /\ stop_requested = {}
    /\ queue = << >>
    /\ app = "running"
    /\ raised = "nothing"

\* load_cell_array = LoadCellArray(), and no cache file written yet.
ArrayInitial ==
    /\ WindowInit
    /\ num_cells = 0
    /\ cells = EmptyCells
    /\ file = << >>
    /\ saved = None
    /\ cell = None
    /\ readings = << >>
    /\ offset = None
    /\ calibration = NotCalibrating
    /\ outcome = Called("LoadCellArray", << >>, Returned(None))

ArrayNext ==
    \/ \E made \in NewArrays : NewArray(made)
    \/ SaveArrayCall
    \/ \E text \in ExternalFiles : EditFile(text)
    \/ LoadArrayCall
    \/ \E batches \in [1..Len(Flat(cells)) -> {SpreadBatch, EqualBatch}] :
           TakeMeasurementCall(batches)

ArraySpec == ArrayInitial /\ [][ArrayNext]_vars

\* --------------------------------------------- one LoadCell on its own

\* take_measurement()
TakeMeasurementOfCell ==
    /\ outcome' = Called("take_measurement", << >>, TakeMeasurement(readings))
    /\ UNCHANGED << windowVars, num_cells, cells, file, saved, cell, readings, offset, calibration >>

\* get_mass()
GetMassOfCell ==
    /\ outcome' = Called("get_mass", << >>, GetMass(cell, readings))
    /\ UNCHANGED << windowVars, num_cells, cells, file, saved, cell, readings, offset, calibration >>

\* A LoadCell with or without slope and intercept, and the batch its HX711
\* returns.
CellInitial ==
    /\ WindowInit
    /\ num_cells = 0
    /\ cells = EmptyCells
    /\ file = << >>
    /\ saved = None
    /\ \E m \in {None, Some(25)}, b \in {None, Some(15)} :
           cell = NewLoadCell(CellArgs(1, "L", m, b)).value
    /\ readings \in RawBatches
    /\ offset = None
    /\ calibration = NotCalibrating
    /\ outcome = Called("LoadCell", << >>, Returned(None))

CellNext ==
    \/ TakeMeasurementOfCell
    \/ GetMassOfCell

CellSpec == CellInitial /\ [][CellNext]_vars

\* ---------------------------------------------------- tare and calibrate

\* self.get_raw_data(sample_size): what the HX711 yields, sample_size values
\* or fewer.
TareBatches == UNION { [1..n -> RawValues] : n \in 0..MaxSamples }

\* tare, its average: sum(readings) / len(readings).
Tare(batch) == Mean(batch)

\* tare(sample_size): self.offset = average_val, unless the division raised.
TareCall(sample_size, batch) ==
    /\ calibration.at = "idle"
    /\ Len(batch) <= sample_size
    /\ LET average_val == Tare(batch) IN
       /\ offset' = IF average_val.raised = "nothing" THEN Some(average_val.value)
                                                      ELSE offset
       /\ outcome' = Called("tare", << sample_size, batch >>,
                            [average_val EXCEPT !.value = None])
    /\ UNCHANGED << windowVars, num_cells, cells, file, saved, cell, readings,
                    calibration >>

\* str.lower() of one character, and of a text.
LowerChar(ch) == CASE ch = "Y" -> "y"
                   [] ch = "N" -> "n"
                   [] ch = "O" -> "o"
                   [] OTHER    -> ch

Lower(text) == [i \in 1..Len(text) |-> LowerChar(text[i])]

\* What the operator may type at the three prompts of calibrate.
AcceptAnswers   == { << "y" >>, << "Y" >>, << "n" >>, << >> }
MassTexts       == { << "5" >>, << "1", "0" >>, << "x" >> }
ContinueAnswers == { << "n" >>, << "N" >>, << "N", "o" >>, << "y" >>, << >> }

\* The batches take_measurement may read while calibrating: trimmed mean 1,
\* trimmed mean 2, and the batch whose trimmed list is empty.
HeavyBatch == << 0, 2, 2, 2, 2, 2, 2, 2, 2, 9 >>
CalibrationBatches == { SpreadBatch, HeavyBatch, EqualBatch }

RECURSIVE Gcd(_, _)
Gcd(a, b) == IF b = 0 THEN a ELSE Gcd(b, a % b)

\* The least common denominator of the measurements of a list of pairs.
RECURSIVE CommonDen(_)
CommonDen(points) ==
    IF points = << >> THEN 1
    ELSE LET rest == CommonDen(Tail(points))
             den  == Head(points)[1].den
         IN  (den * rest) \div Gcd(den, rest)

\* polyfit(calibration_data[0], calibration_data[1], 1): the least-squares
\* line through the pairs (measurement, mass), measurements positive.  Where
\* every measurement is the same value the system has rank 1, and lstsq on
\* the scaled columns returns its minimum-norm solution: half the mean mass
\* as intercept, and as slope half the mean mass over the measurement.
Polyfit(points) ==
    LET n     == Len(points)
        den   == CommonDen(points)
        x     == [i \in 1..n |-> points[i][1].num * (den \div points[i][1].den)]
        y     == [i \in 1..n |-> points[i][2]]
        sx    == Sum(x)
        sy    == Sum(y)
        sxy   == Sum([i \in 1..n |-> x[i] * y[i]])
        sxx   == Sum([i \in 1..n |-> x[i] * x[i]])
        cov   == n * sxy - sx * sy
        var   == n * sxx - sx * sx
    IN  IF var # 0
        THEN [m |-> Quotient(den * cov, var),
              b |-> Quotient(sy * var - cov * sx, n * var)]
        ELSE [m |-> Quotient(den * sy, 2 * sx),
              b |-> Quotient(sy, 2 * n)]

\* calibrate blocks at input(...): the last call is the prompt it waits at.
Prompted == Called("input", << >>, Returned(None))

\* calibrate(): the call, up to the first prompt.
CalibrateCall ==
    /\ calibration.at = "idle"
    /\ calibration' = [calibration EXCEPT !.at = "accept"]
    /\ outcome' = Prompted
    /\ UNCHANGED << windowVars, num_cells, cells, file, saved, cell, readings, offset >>

\* if accept.lower() == 'y': calibration_data = [[], []], up to the prompt for
\* the empty scale; any other answer returns.
Accept(answer) ==
    /\ calibration.at = "accept"
    /\ IF Lower(answer) = << "y" >>
       THEN /\ calibration' = [at |-> "zero", data |-> << >>]
            /\ outcome' = Prompted
       ELSE /\ calibration' = [calibration EXCEPT !.at = "idle"]
            /\ outcome' = Called("calibrate", << >>, Returned(None))
    /\ UNCHANGED << windowVars, num_cells, cells, file, saved, cell, readings, offset >>

\* A loop that asks whether to continue before it asks for a mass.
AfterZeroPair_asks == "continue"

\* while calibrating: entered with calibrating = True, so the prompt after the
\* zero-mass pair is the one for a known mass.
AfterZeroPair == "mass"

\* The scale is empty and enter is pressed: take_measurement() gives the pair
\* of mass 0; an exception of take_measurement ends calibrate.
ZeroMass(batch) ==
    /\ calibration.at = "zero"
    /\ LET measurement == TakeMeasurement(batch) IN
       IF measurement.raised # "nothing"
       THEN /\ calibration' = [calibration EXCEPT !.at = "idle"]
            /\ outcome' = Called("calibrate", << >>, measurement)
       ELSE /\ calibration' = [at   |-> AfterZeroPair,
                               data |-> << << measurement.value, 0 >> >>]
            /\ outcome' = Prompted
    /\ UNCHANGED << windowVars, num_cells, cells, file, saved, cell, readings, offset >>

\* working_mass = int(input(...)): a text int rejects is asked for again; an
\* accepted mass is followed by take_measurement() and the two appends.
KnownMass(text, batch) ==
    /\ calibration.at = "mass"
    /\ Len(calibration.data) < MaxPairs
    /\ LET working_mass == ParseInt(text)
           measurement  == TakeMeasurement(batch)
       IN  IF working_mass = None
           THEN /\ UNCHANGED calibration
                /\ outcome' = Called("int", << text >>, Raised("ValueError"))
           ELSE IF measurement.raised # "nothing"
           THEN /\ calibration' = [calibration EXCEPT !.at = "idle"]
                /\ outcome' = Called("calibrate", << text >>, measurement)
           ELSE /\ calibration' =
                       [at   |-> "continue",
                        data |-> Append(calibration.data,
                                        << measurement.value, Val(working_mass) >>)]
                /\ outcome' = Called("input", << text >>, Returned(None))
    /\ UNCHANGED << windowVars, num_cells, cells, file, saved, cell, readings, offset >>

\* "Do you wish to continue?": 'n' or 'no' ends the loop, and self.m, self.b =
\* polyfit(...); any other answer goes round again.
Continue(answer) ==
    /\ calibration.at = "continue"
    /\ IF Lower(answer) \in { << "n" >>, << "n", "o" >> }
       THEN LET fit == Polyfit(calibration.data) IN
            /\ cell' = [cell EXCEPT !.m = Some(fit.m), !.b = Some(fit.b)]
            /\ calibration' = [calibration EXCEPT !.at = "idle"]
            /\ outcome' = Called("calibrate", << >>, Returned(None))
       ELSE /\ Len(calibration.data) < MaxPairs
            /\ calibration' = [calibration EXCEPT !.at = "mass"]
            /\ outcome' = Prompted
            /\ UNCHANGED cell
    /\ UNCHANGED << windowVars, num_cells, cells, file, saved, readings, offset >>

\* A LoadCell never calibrated, or one with slope 5/2 and intercept 3/2.
CalibrationInitial ==
    /\ WindowInit
    /\ num_cells = 0
    /\ cells = EmptyCells
    /\ file = << >>
    /\ saved = None
    /\ \E m \in {None, Some(Quotient(5, 2))}, b \in {None, Some(Quotient(3, 2))} :
           cell = NewLoadCell(CellArgs(1, "L", m, b)).value
    /\ readings = << >>
    /\ offset = None
    /\ calibration = NotCalibrating
    /\ outcome = Called("LoadCell", << >>, Returned(None))

\* tare, called any number of times on one LoadCell.
TareNext ==
    \E sample_size \in 1..MaxSamples, batch \in TareBatches : TareCall(sample_size, batch)

TareSpec == CalibrationInitial /\ [][TareNext]_vars

\* calibrate, called any number of times on one LoadCell.
CalibrationNext ==
    \/ CalibrateCall
    \/ \E answer \in AcceptAnswers : Accept(answer)
    \/ \E batch \in CalibrationBatches : ZeroMass(batch)
    \/ \E text \in MassTexts, batch \in CalibrationBatches : KnownMass(text, batch)
    \/ \E answer \in ContinueAnswers : Continue(answer)

CalibrationSpec == CalibrationInitial /\ [][CalibrationNext]_vars

\* ------------------------------------------------------------ specification

\* AppWindow.__init__: the array is loaded, nothing is being measured.
\* No sensor object is followed while the window runs: the array is what
\* AppWindow.__init__ loaded, known by its num_cells.
SensorsUntracked ==
    /\ cells = EmptyCells
    /\ file = << >>
    /\ saved = None
    /\ cell = None
    /\ readings = << >>
    /\ offset = None
    /\ calibration = NotCalibrating
    /\ outcome = Called("load_array", << >>, Returned(None))

Init ==
    /\ WindowInit
    /\ num_cells \in CellCounts
    /\ SensorsUntracked

Next ==
    \/ \E checked \in {0, Checked} : RecordChecked(checked)
    \/ \E c \in Coord : CheckFlag(c)
    \/ \E c \in Coord : RhtReadFails(c)
    \/ \E c \in Coord : RhtRead(c)
    \/ \E c \in Coord : MassReadFails(c)
    \/ \E c \in Coord : MassRead(c)
    \/ \E c \in Coord : Pace(c)
    \/ \E c \in Coord : ReadEmit(c)
    \/ ShowNewMasses
    \/ StoreMasses
    \/ ShowNewRht
    \/ StoreRht
    \/ EmitReadPulse

Spec == Init /\ [][Next]_vars

\* ------------------------------------------------------------------ claims

Max(a, b) == IF a >= b THEN a ELSE b

InCycle(c) == pc[c] \in {"rht", "mass", "pace", "read"}

ConsumerSlots == {"show_new_masses", "store_masses", "show_new_rht", "store_rht",
                  "emit_read_pulse"}

\* C1: run leaves its loop through the test at the top, and only there: a step
\* from the top goes to the exit, with nothing read or published, when the flag
\* is false, and into a cycle when the flag is true; no step from inside a
\* cycle reaches the exit.
C1_FlagReadDecidesExit ==
    [][\A c \in Coord :
          /\ (pc[c] = "check" /\ pc'[c] # "check" /\ ~controls.measure)
                => (pc'[c] = "done" /\ queue' = queue)
          /\ (pc[c] = "check" /\ pc'[c] # "check" /\ controls.measure)
                => pc'[c] = "rht"
          /\ (pc'[c] = "done" /\ pc[c] # "done")
                => (pc[c] = "check" /\ ~controls.measure)]_vars

\* A coordinator has left its loop on a false flag while a result it published
\* is still waiting for its consumers.
C1_Witness ==
    \E c \in Coord : pc[c] = "done" /\ ~controls.measure /\ queue # << >>

\* C2: a coordinator whose cycle was in flight when the flag was set false does
\* not end with exactly one of the cycle's two results published.
C2_InFlightCycleCompletes ==
    \A c \in Coord :
        c \in stop_requested =>
            ~(pc[c] = "crashed" \/ (app = "aborted" /\ pc[c] = "mass"))

\* C3: a coordinator that was running when the flag was set false starts no
\* further cycle: its next step from the top of the loop is the exit.
C3_StopRequestedExits ==
    [][\A c \in Coord :
          (c \in stop_requested /\ pc[c] = "check" /\ pc'[c] # "check")
              => pc'[c] = "done"]_vars

\* C4: no two coordinators are inside a cycle, reading the sensor arrays, at
\* the same time.
C4_OneLoopReadsSensors ==
    \A c1, c2 \in Coord :
        (Running(c1) /\ Running(c2) /\ InCycle(c1) /\ InCycle(c2)) => c1 = c2

\* C5: the pacing delay of a cycle is max(0, interval - time_elapsed); sleep is
\* never called with a negative argument, and after the delay the loop is back
\* at its top.
C5_PacingDelay ==
    [][\A c \in Coord :
          /\ pc'[c] = "read" =>
                LET delay == IF pacing'[c].sleep = None THEN 0
                             ELSE Val(pacing'[c].sleep)
                IN /\ delay = Max(0, interval - pacing'[c].time_elapsed)
                   /\ delay >= 0
          /\ (pc[c] = "read" /\ pc'[c] # "read") => pc'[c] = "check"]_vars

\* A cycle overran its interval and is at its pacing step.
C5_Witness ==
    \E c \in Coord :
        pc[c] = "read" /\ pacing[c].time_elapsed > interval /\ Running(c)

\* C6: a step from the environmental read either publishes the environmental
\* result and goes on to the mass read, or (the read failed) publishes nothing
\* and returns to the top of the loop, from where a true flag starts the read
\* again.
C6_RhtFailureRetries ==
    [][\A c \in Coord :
          /\ (pc[c] = "rht" /\ pc'[c] # "rht") =>
                \/ pc'[c] = "mass" /\ Len(queue') = Len(queue) + 1
                                   /\ queue'[Len(queue')].sig = "rht"
                \/ pc'[c] = "check" /\ queue' = queue /\ app' = app
          /\ (pc[c] = "check" /\ printed[c] /\ controls.measure
                /\ pc'[c] # "check") => pc'[c] = "rht"]_vars

\* A coordinator is back in the environmental read after a failed one.
C6_Witness ==
    \E c \in Coord : pc[c] = "check" /\ printed[c] /\ controls.measure /\ Running(c)

\* C7: a coordinator back at the top of the loop after a failed environmental
\* read has slept on the way.
C7_FallbackDelay ==
    \A c \in Coord : (pc[c] = "check" /\ printed[c]) => pacing[c].sleep # None

\* C8: a failed mass read does not end the coordinator's loop.
C8_MassFailureNotFatal ==
    \A c \in Coord : pc[c] # "crashed"

\* C9: no coordinator that was in its loop with the flag true is stopped by an
\* exception a consumer raised.
C9_ConsumerFailureNotFatal ==
    \A c \in Coord :
        ~(app = "aborted" /\ raised \in ConsumerSlots /\ controls.measure
            /\ pc[c] \in {"check", "rht", "mass", "pace", "read"})

SlotIds == { << Digits[chamber + 1], side >> : chamber \in 1..4, side \in {"L", "R"} }

\* The place of an id in chamber-ascending order, L before R.
SlotRank(id) == 2 * DigitValue(id[1]) + (IF id[2] = "L" THEN 0 ELSE 1)

DistinctIds(grid) ==
    \A i, j \in 1..Len(Flat(grid)) : i # j => Flat(grid)[i].id # Flat(grid)[j].id

Calibrated(load_cell) == load_cell.m # None /\ load_cell.b # None

\* C11: no (chamber, side) id occurs twice in the array and no chamber holds
\* more than two sensors, whatever was inserted through the constructor or
\* load_array (an insertion into an occupied slot would have failed).
C11_SlotHoldsOneSensor ==
    /\ DistinctIds(cells)
    /\ \A chamber \in 1..4 : Len(cells[chamber]) <= 2

\* C12: a sensor whose chamber is not 1 to 4 or whose side is not L or R is
\* never in the array, and the statement that tried to create it raised for
\* that sensor and left cells and num_cells as they were.
C12_OutOfDomainNeverPlaced ==
    [][ /\ \A i \in 1..Len(Flat(cells')) : Flat(cells')[i].id \in SlotIds
        /\ (outcome'.op = "LoadCellArray" /\ outcome'.raised # "nothing")
             => /\ outcome'.raised = "ValueError"
                /\ outcome'.args[1] \notin 1..4 \/ outcome'.args[2] \notin {"L", "R", "l", "r"}
                /\ cells' = cells
                /\ num_cells' = num_cells ]_vars

\* An array is at hand, and creating a sensor for chamber 5 has just raised.
C12_Witness ==
    /\ outcome.op = "LoadCellArray"
    /\ outcome.raised = "ValueError"
    /\ outcome.args[1] = 5
    /\ Len(Flat(cells)) = 2

WellFormed(record) ==
    LET f == Split(record, ",") IN
    /\ Len(f) = 7
    /\ IsDecimal(f[1]) /\ IsDecimal(f[2]) /\ IsDecimal(f[3])
    /\ f[5] \in SlotIds

\* C15: load_array returns without an exception only when every record of the
\* file is well-formed.
C15_MalformedRecordRejected ==
    (outcome.op = "load_array" /\ outcome.raised = "nothing")
        => \A i \in 1..Len(Records(file)) : WellFormed(Records(file)[i])

\* C16: a load_array that raises leaves cells and num_cells as they were
\* before the call.
C16_FailedLoadChangesNothing ==
    [][ (outcome'.op = "load_array" /\ outcome'.raised # "nothing")
        => (cells' = cells /\ num_cells' = num_cells) ]_vars

\* C17: take_measurement either returns one mass per sensor of the array, all
\* of them calibrated, or raises and returns nothing; it raises whenever a
\* sensor has m or b unset, wherever that sensor is in the order.
C17_NoPartialVector ==
    outcome.op = "take_measurement" =>
        /\ outcome.raised = "nothing"
             => /\ Len(outcome.value) = Len(Flat(cells))
                /\ \A i \in 1..Len(Flat(cells)) : Calibrated(Flat(cells)[i])
        /\ outcome.raised # "nothing" => outcome.value = None
        /\ (\E i \in 1..Len(Flat(cells)) : ~Calibrated(Flat(cells)[i]))
             => outcome.raised # "nothing"

\* The second of two sensors lacks its calibration, and the call raised after
\* the first one had measured.
C17_Witness ==
    /\ outcome.op = "take_measurement"
    /\ outcome.raised = "TypeError"
    /\ Len(Flat(cells)) = 2
    /\ Calibrated(Flat(cells)[1])
    /\ ~Calibrated(Flat(cells)[2])

\* C25: a sensor of side L is at the first place of the list of its chamber
\* and a sensor of side R at the second, also when the other side of the
\* chamber holds nothing.
C25_FixedGridPositions ==
    DistinctIds(cells) =>
        \A chamber \in 1..4 : \A k \in 1..Len(cells[chamber]) :
            k = 1 + SideIndex(cells[chamber][k].id[2])

\* The number of records of a file: one per delimiter.
Delimiters(text) == Len(SelectSeq(text, LAMBDA ch : ch = "|"))

\* C26: load_array takes one record per delimiter of the file, none for an
\* empty file: num_cells is that number, a load that returns has added that
\* many sensors, and into an empty array it has put a sensor for every
\* well-formed piece the delimiters end, the first as well as the last.
C26_EveryRecordLoaded ==
    [][ outcome'.op = "load_array" =>
          /\ num_cells' = Delimiters(file)
          /\ outcome'.raised = "nothing" =>
                /\ Len(Flat(cells')) = Len(Flat(cells)) + Delimiters(file)
                /\ cells = EmptyCells =>
                      \A i \in 1..Delimiters(file) :
                          WellFormed(Split(file, "|")[i]) =>
                              \E j \in 1..Len(Flat(cells')) :
                                  WriteStr(Flat(cells')[j]) = Split(file, "|")[i] \o << "|" >> ]_vars

\* A file of two records was loaded into an empty array.
C26_Witness ==
    /\ outcome.op = "load_array"
    /\ outcome.raised = "nothing"
    /\ Delimiters(file) = 2
    /\ num_cells = 2
    /\ Len(Flat(cells)) = 2
    /\ saved = None

\* C27: num_cells is the number of sensors the four chamber lists hold, after
\* the constructor and after every load_array, returned or raised.
C27_NumCellsCountsSensors == num_cells = Len(Flat(cells))

\* C28: a load_array that returns leaves the array as the file alone makes it,
\* whatever the array held before the call.
C28_LoadFromFileAlone ==
    [][ (outcome'.op = "load_array" /\ outcome'.raised = "nothing")
        => cells' = LoadArray(EmptyCells, file).cells ]_vars

\* ------------------------------------------------- claims on one LoadCell

\* sum(list[i] for i in indices)
RECURSIVE SumOver(_, _)
SumOver(list, indices) ==
    IF indices = {} THEN 0
    ELSE LET i == CHOOSE k \in indices : TRUE
         IN  list[i] + SumOver(list, indices \ {i})

\* C18: get_mass raises whenever m or b is unset (TypeError, once the raw
\* measurement is there), and a value it returns is m * measurement + b for the
\* measurement take_measurement gives on the same batch.
C18_GetMassNeedsCalibration ==
    outcome.op = "get_mass" =>
        LET raw == TakeMeasurement(readings) IN
        /\ (cell.m = None \/ cell.b = None) =>
               /\ outcome.raised # "nothing"
               /\ raw.raised = "nothing" => outcome.raised = "TypeError"
        /\ outcome.raised = "nothing" =>
               /\ raw.raised = "nothing"
               /\ outcome.value.num * (10 * raw.value.den)
                      = (Val(cell.m) * raw.value.num + Val(cell.b) * raw.value.den)
                            * outcome.value.den

\* get_mass raised on a LoadCell that has b and no m.
C18_Witness ==
    /\ outcome.op = "get_mass"
    /\ cell.m = None
    /\ cell.b # None
    /\ outcome.raised = "TypeError"

\* C19: a value take_measurement returns is the mean of some samples of the
\* batch, none of them below the batch's 10th percentile and none above its
\* 90th.
C19_TrimmedMean ==
    (outcome.op = "take_measurement" /\ outcome.raised = "nothing") =>
        \E kept \in SUBSET (1..Len(readings)) :
            /\ kept # {}
            /\ \A i \in kept : /\ 10 * readings[i] >= Quantile10(readings, 1)
                                /\ 10 * readings[i] <= Quantile10(readings, 9)
            /\ outcome.value.num * Cardinality(kept)
                   = SumOver(readings, kept) * outcome.value.den

\* take_measurement returned on a batch with a sample below the 10th
\* percentile and a sample above the 90th.
C19_Witness ==
    /\ outcome.op = "take_measurement"
    /\ outcome.raised = "nothing"
    /\ \E i \in 1..Len(readings) : 10 * readings[i] < Quantile10(readings, 1)
    /\ \E i \in 1..Len(readings) : 10 * readings[i] > Quantile10(readings, 9)

\* C20: take_measurement never raises ZeroDivisionError, and when no sample is
\* left after the trimming it returns the mean of the whole batch.
C20_EmptyTrimFallsBack ==
    outcome.op = "take_measurement" =>
        /\ outcome.raised # "ZeroDivisionError"
        /\ Trimmed(readings) = << >> =>
               /\ outcome.raised = "nothing"
               /\ SameNumber(outcome.value, Quotient(Sum(readings), Len(readings)))

\* ------------------------------------------ claims on the cycle and its records

\* The step appended one emission of signal sig to the queue.
Emitted(sig) ==
    /\ Len(queue') = Len(queue) + 1
    /\ SubSeq(queue', 1, Len(queue)) = queue
    /\ queue'[Len(queue')].sig = sig

\* C23: a coordinator goes through a cycle in one order: it reads the
\* environment and publishes it in the step that takes it to the mass read,
\* reads and publishes the masses in the step that takes it to the delay, and
\* emits the cycle-complete signal only from past the delay, so never before
\* both results of the cycle are published.
C23_CycleOrder ==
    [][ /\ \A c \in Coord :
              /\ (pc'[c] = "rht" /\ pc[c] # "rht") => pc[c] = "check"
              /\ (pc'[c] = "mass" /\ pc[c] # "mass") => (pc[c] = "rht" /\ Emitted("rht"))
              /\ (pc'[c] = "pace" /\ pc[c] # "pace") => (pc[c] = "mass" /\ Emitted("mass"))
              /\ (pc'[c] = "read" /\ pc[c] # "read") => (pc[c] = "pace" /\ queue' = queue)
        /\ Emitted("read") => \E c \in Coord : pc[c] = "read" /\ pc'[c] = "check"
        /\ Emitted("rht") => \E c \in Coord : pc[c] = "rht"
        /\ Emitted("mass") => \E c \in Coord : pc[c] = "mass" ]_vars

\* A cycle has run to its end: its cycle-complete emission is in the queue.
C23_Witness ==
    /\ app = "running"
    /\ \E i \in 1..Len(queue) : queue[i].sig = "read"

C29_StoreFindsBuffers ==
    (SlotPending("store_masses") \/ SlotPending("store_rht")) =>
        /\ mass_data # None
        /\ rht_data # None
        /\ collection_start_time # None

\* ------------------------------------------- claims on tare and calibrate

\* C21: tare(sample_size) sets offset to the mean of exactly sample_size
\* samples; when the source yields fewer, none included, it raises
\* SourceUnavailable and leaves offset as it was.
C21_TareNeedsFullBatch ==
    [][ outcome'.op = "tare" =>
          LET sample_size == outcome'.args[1]
              batch       == outcome'.args[2]
          IN  IF Len(batch) = sample_size
              THEN /\ outcome'.raised = "nothing"
                   /\ offset' = Some(Quotient(Sum(batch), sample_size))
              ELSE /\ outcome'.raised = "SourceUnavailable"
                   /\ offset' = offset ]_vars

\* C22: slope and intercept change only in the step that ends the loop of
\* calibrate, and are then the fit of at least two pairs, the first the pair
\* of mass 0 and one more per mass int accepted; a calibrate that ends
\* anywhere else, declined or by an exception of take_measurement, leaves
\* the LoadCell as it was.
C22_FitNeedsTwoPairs ==
    [][ /\ cell' # cell =>
              /\ calibration.at = "continue"
              /\ Len(calibration.data) >= 2
              /\ calibration.data[1][2] = 0
              /\ outcome'.op = "calibrate" /\ outcome'.raised = "nothing"
              /\ cell'.m = Some(Polyfit(calibration.data).m)
              /\ cell'.b = Some(Polyfit(calibration.data).b)
        /\ calibration'.data # calibration.data =>
              \/ calibration'.data = << >> /\ calibration.at = "accept"
              \/ /\ calibration.at = "zero"
                 /\ Len(calibration'.data) = 1
                 /\ calibration'.data[1][2] = 0
              \/ /\ calibration.at = "mass"
                 /\ calibration.data # << >>
                 /\ Len(calibration'.data) = Len(calibration.data) + 1
                 /\ SubSeq(calibration'.data, 1, Len(calibration.data)) = calibration.data
                 /\ Some(calibration'.data[Len(calibration'.data)][2]) = ParseInt(outcome'.args[1])
        /\ (outcome'.op = "calibrate" /\ calibration.at # "continue") => cell' = cell
        /\ (outcome'.op = "calibrate" /\ calibration.at = "continue") =>
              (Len(calibration.data) >= 2 /\ cell'.m # None /\ cell'.b # None) ]_vars

\* An uncalibrated LoadCell was calibrated on the pair of mass 0 read as 1
\* and the pair of mass 5 read as 2: slope 5, intercept -5.
C22_Witness ==
    /\ outcome.op = "calibrate"
    /\ outcome.raised = "nothing"
    /\ calibration.at = "idle"
    /\ Len(calibration.data) = 2
    /\ calibration.data[2][2] = 5
    /\ cell.m # None /\ SameNumber(Val(cell.m), Quotient(5, 1))
    /\ cell.b # None /\ SameNumber(Val(cell.b), Quotient(0 - 5, 1))

====
